---- MODULE Spec2Model ----
(***************************************************************************)
(* A model of file-server/scripts/face_detect_thumbnail.py: the command    *)
(* line entry point and detect_best_face_frame, the scan that samples a    *)
(* video every `interval` seconds from `start_time` and writes a 320 pixel *)
(* wide thumbnail of the first frame holding a large frontal face.         *)
(*                                                                         *)
(* The OpenCV collaborators are inputs: a video is what VideoCapture       *)
(* reports (whether it opens, frame count, fps, frame shape), and for each *)
(* frame whether it decodes and which rectangles and eye counts the two    *)
(* cascades return for it.  Times and fps are integers, as with the        *)
(* defaults 10 and 2 of the command line; the duration total_frames / fps  *)
(* is kept as an exact fraction.  The thumbnail height is computed as the  *)
(* code computes it, in IEEE double arithmetic.                            *)
(***************************************************************************)
EXTENDS Integers, Sequences, FiniteSets, TLC

VARIABLES
    entry,          \* "main": run as a script; "call": the function called directly
    argc,           \* len(sys.argv)
    path_exists,    \* os.path.exists(video_path)
    video,          \* what the decoder and the detectors give for video_path
    start_time,     \* parameter of detect_best_face_frame
    interval,       \* parameter of detect_best_face_frame
    pc,             \* "main", "open", "loop", "read", "returned", "exit"
    cap,            \* the VideoCapture: "none", "failed", "open", "released"
    total_frames,
    fps,
    duration,       \* the fraction [num, den]
    current_time,
    frames_checked,
    ret,            \* the value returned: "none" (not yet), "true", "false"
    output,         \* the file at output_path: {} or {the thumbnail written}
    exit_code,      \* -1 until sys.exit
    log             \* history: one entry per cap.read() of the scan

vars == <<entry, argc, path_exists, video, start_time, interval, pc, cap,
          total_frames, fps, duration, current_time, frames_checked, ret,
          output, exit_code, log>>

(***************************************************************************)
(* Bounds of the model.                                                    *)
(***************************************************************************)
\* Directly called scans run on videos of at most MaxFrames frames.
MaxFrames == 3
\* The history keeps the first MaxSamples reads; frames_checked counts up to
\* MaxSamples, which stands for "MaxSamples or more" (it is only printed).
MaxSamples == 12
\* A scan walking backwards (negative interval) is followed down to -MaxBack.
MaxBack == 3

Min(a, b) == IF a <= b THEN a ELSE b
Max(a, b) == IF a >= b THEN a ELSE b
Abs(a) == IF a >= 0 THEN a ELSE -a

(***************************************************************************)
(* IEEE double arithmetic, as far as the thumbnail height needs it.  A     *)
(* double is [m, e]: m is an integer of at most 53 significant bits kept   *)
(* as five limbs to base 2^13, most significant first, and the value is    *)
(* m * 2^(e - 52).                                                         *)
(***************************************************************************)
\* These are functions, not operators, so that every argument is a value
\* when the body is evaluated.
Pow2[n \in 0..30] == IF n = 0 THEN 1 ELSE 2 * Pow2[n - 1]

LimbBase == Pow2[13]

Doubles == [m : Seq(Nat), e : Int]

ShiftUp[n \in Nat, d \in Nat] == IF n >= d THEN 0 ELSE 1 + ShiftUp[2 * n, d]

ShiftDown[n \in Nat, d \in Nat] == IF 2 * d > n THEN 0 ELSE 1 + ShiftDown[n, 2 * d]

BitLen[x \in Nat] == IF x = 0 THEN 0 ELSE 1 + BitLen[x \div 2]

\* k quotient limbs of r / d by long division, for r < d.
DivLimbs[r \in Nat, d \in Nat, k \in Nat] ==
    IF k = 0 THEN [limbs |-> <<>>, rem |-> r]
    ELSE LET rest == DivLimbs[(r * LimbBase) % d, d, k - 1]
         IN [limbs |-> <<(r * LimbBase) \div d>> \o rest.limbs, rem |-> rest.rem]

\* limbs + x at the last limb, for x <= LimbBase; the first limb takes the
\* last carry.
AddLast[limbs \in Seq(Nat), x \in Nat] ==
    LET n == Len(limbs)
    IN IF n = 1 \/ limbs[n] + x < LimbBase
       THEN [limbs EXCEPT ![n] = @ + x]
       ELSE AddLast[SubSeq(limbs, 1, n - 1), 1] \o <<limbs[n] + x - LimbBase>>

\* limbs * k + c
MulLimbs[limbs \in Seq(Nat), c \in Nat, k \in Nat] ==
    LET n == Len(limbs)
    IN IF n = 1 THEN <<limbs[1] * k + c>>
       ELSE MulLimbs[SubSeq(limbs, 1, n - 1), (limbs[n] * k + c) \div LimbBase, k]
            \o <<(limbs[n] * k + c) % LimbBase>>

LimbsValue[limbs \in Seq(Nat)] ==
    IF limbs = <<>> THEN 0
    ELSE LimbsValue[SubSeq(limbs, 1, Len(limbs) - 1)] * LimbBase + limbs[Len(limbs)]

\* Round to nearest, ties to even, at bit `drop` of the last limb.
RoundNearestEven[limbs \in Seq(Nat), drop \in Nat] ==
    IF drop = 0 THEN limbs
    ELSE LET last == limbs[Len(limbs)]
             guard == (last \div Pow2[drop - 1]) % 2
             sticky == (last % Pow2[drop - 1]) # 0
             odd == (last \div Pow2[drop]) % 2 = 1
             cleared == [limbs EXCEPT ![Len(limbs)] = last - (last % Pow2[drop])]
         IN IF guard = 1 /\ (sticky \/ odd)
            THEN AddLast[cleared, Pow2[drop]]
            ELSE cleared

\* The double n / d of two positive integers: the quotient is brought into
\* [1, 2), cut to 53 bits and one guard bit, and rounded.
FloatDiv[n \in Nat, d \in Nat] ==
    LET up == n >= d
        e == IF up THEN ShiftDown[n, d] ELSE -ShiftUp[n, d]
        num == IF up THEN n ELSE n * Pow2[-e]
        den == IF up THEN d * Pow2[e] ELSE d
        q == DivLimbs[num - den, den, 4]
        guard == (2 * q.rem) \div den
        sticky == ((2 * q.rem) % den) # 0
        odd == q.limbs[4] % 2 = 1
        raw == <<1>> \o q.limbs
        m == IF guard = 1 /\ (sticky \/ odd) THEN AddLast[raw, 1] ELSE raw
    IN IF m[1] = 2 THEN [m |-> <<1, 0, 0, 0, 0>>, e |-> e + 1]
       ELSE [m |-> m, e |-> e]

\* The double k * f of an integer 0 < k < 2^12 and a double f of 53 bits.
FloatMulInt[k \in Nat, f \in Doubles] ==
    LET p == MulLimbs[f.m, 0, k]
    IN [m |-> RoundNearestEven[p, BitLen[p[1]] - 1], e |-> f.e]

\* int(f) of a positive double below 2^26.
FloatTrunc[f \in Doubles] ==
    LET s == 52 - f.e
        keep == 5 - (s \div 13)
    IN IF keep <= 0 THEN 0
       ELSE LimbsValue[SubSeq(f.m, 1, keep)] \div Pow2[s % 13]

(***************************************************************************)
(* The thumbnail.                                                          *)
(***************************************************************************)
target_width == 320

\* A slip that rounds the height to the nearest integer.
TargetHeightRounded(height, width) ==
    (2 * height * target_width + width) \div (2 * width)

\* target_height = int(height * (target_width / width))
TargetHeight(height, width) ==
    FloatTrunc[FloatMulInt[height, FloatDiv[target_width, width]]]

(***************************************************************************)
(* Faces and their scores.  Scores are kept as numerators over the frame   *)
(* area, so that every comparison of the code is an exact one.             *)
(***************************************************************************)
MIN_FACE_SIZE_PCT == 9
FRONTAL_SCORE == 50

\* A slip that raises the quality threshold.
MIN_SCORE_Raised == 75 + 10

MIN_SCORE == 75

\* The rectangles the face cascade can return, with the number of eyes the
\* eye cascade finds in each, on a frame of shape H x W.
FaceKinds == {"small", "corner", "centre", "profile"}

FaceRect(kind, W, H) ==
    CASE kind = "small"   -> [x |-> 0, y |-> 0,
                              w |-> (20 * W) \div 100, h |-> (20 * H) \div 100, eyes |-> 2]
      [] kind = "corner"  -> [x |-> 0, y |-> 0,
                              w |-> (30 * W) \div 100, h |-> (30 * H) \div 100, eyes |-> 2]
      [] kind = "centre"  -> [x |-> (20 * W) \div 100, y |-> (20 * H) \div 100,
                              w |-> (60 * W) \div 100, h |-> (60 * H) \div 100, eyes |-> 3]
      [] kind = "profile" -> [x |-> (20 * W) \div 100, y |-> (20 * H) \div 100,
                              w |-> (60 * W) \div 100, h |-> (60 * H) \div 100, eyes |-> 1]

frame_area(W, H) == H * W
face_area(f) == f.w * f.h

\* area_ratio < MIN_FACE_SIZE
TooSmall(f, W, H) == 100 * face_area(f) < MIN_FACE_SIZE_PCT * frame_area(W, H)

\* size_score = min(30, area_ratio * 300), times the frame area
size_score(f, W, H) == Min(30 * frame_area(W, H), 300 * face_area(f))

\* position_score = max(0, 20 * (1 - center_dist * 2)), times the frame area:
\* center_dist * 2 = |2x + w - W| / 2W + |2y + h - H| / 2H
position_score(f, W, H) ==
    Max(0, 20 * frame_area(W, H)
           - 10 * (Abs(2 * f.x + f.w - W) * H + Abs(2 * f.y + f.h - H) * W))

\* total_score = size_score + position_score + frontal_score, times the frame area
total_score(f, W, H) ==
    size_score(f, W, H) + position_score(f, W, H) + FRONTAL_SCORE * frame_area(W, H)

\* A slip that accepts a face with a single eye.
VerdictOneEye(f, W, H) ==
    IF TooSmall(f, W, H) THEN "small"
    ELSE IF f.eyes >= 1
         THEN IF total_score(f, W, H) >= MIN_SCORE * frame_area(W, H)
              THEN "selected" ELSE "lowscore"
         ELSE "eyes"

\* The body of the loop over the faces of a frame, for one face.
Verdict(f, W, H) ==
    IF TooSmall(f, W, H) THEN "small"
    ELSE IF f.eyes >= 2
         THEN IF total_score(f, W, H) >= MIN_SCORE * frame_area(W, H)
              THEN "selected" ELSE "lowscore"
         ELSE "eyes"

\* A slip that leaves the loop at the first rejected face.
EvalFacesBreak(faces, W, H) ==
    LET v == [i \in 1..Len(faces) |-> Verdict(FaceRect(faces[i], W, H), W, H)]
        stop == {i \in 1..Len(faces) : v[i] # "small"}
        last == IF stop = {} THEN Len(faces)
                ELSE CHOOSE i \in stop : \A j \in stop : i <= j
    IN SubSeq(v, 1, last)

\* A slip that scores every face of the frame before it decides.
EvalFacesAll(faces, W, H) ==
    [i \in 1..Len(faces) |-> Verdict(FaceRect(faces[i], W, H), W, H)]

\* The loop over the faces of a frame: the verdicts of the faces it looks at,
\* in detector order, ending with the first face selected.
EvalFaces(faces, W, H) ==
    LET v == [i \in 1..Len(faces) |-> Verdict(FaceRect(faces[i], W, H), W, H)]
        hit == {i \in 1..Len(faces) : v[i] = "selected"}
        last == IF hit = {} THEN Len(faces)
                ELSE CHOOSE i \in hit : \A j \in hit : i <= j
    IN SubSeq(v, 1, last)

Selects(verdicts) == \E i \in 1..Len(verdicts) : verdicts[i] = "selected"

(***************************************************************************)
(* Videos.                                                                 *)
(***************************************************************************)
\* What the face cascade returns for a decoded frame.
Shots == {<<>>, <<"small", "profile">>, <<"corner", "centre">>, <<"profile", "centre">>}

Undecodable == [ok |-> FALSE, faces |-> <<>>]
Blank == [ok |-> TRUE, faces |-> <<>>]
FrameOptions == {Undecodable} \cup {[ok |-> TRUE, faces |-> s] : s \in Shots}

\* Frame shapes (width, height).
Shapes == {<<1920, 1080>>, <<640, 480>>, <<312, 234>>, <<854, 480>>, <<1080, 1920>>}

\* Short videos, every frame chosen freely.
ShortVideos ==
    {[opens |-> o, clamps |-> c, total_frames |-> n, fps |-> f,
      width |-> 640, height |-> 480, frames |-> fr] :
        o \in BOOLEAN, c \in BOOLEAN, n \in 0..MaxFrames, f \in {0, 1, 2},
        fr \in UNION {[0..(k - 1) -> FrameOptions] : k \in 0..MaxFrames}}

\* Videos at 30 fps, 5 s and 30 s long; the frames not listed are blank.
LongVideos ==
    {[opens |-> o, clamps |-> TRUE, total_frames |-> n, fps |-> 30,
      width |-> s[1], height |-> s[2], frames |-> fr] :
        o \in BOOLEAN, n \in {150, 900}, s \in Shapes,
        fr \in [{300, 330, 840} -> FrameOptions]}

FrameAt(i) == IF i \in DOMAIN video.frames THEN video.frames[i] ELSE Blank

(***************************************************************************)
(* The initial states.                                                     *)
(***************************************************************************)
Fresh ==
    /\ cap = "none"
    /\ total_frames = 0
    /\ fps = 0
    /\ duration = [num |-> 0, den |-> 1]
    /\ current_time = 0
    /\ frames_checked = 0
    /\ ret = "none"
    /\ output = {}
    /\ exit_code = -1
    /\ log = <<>>

InitMain ==
    /\ entry = "main"
    /\ pc = "main"
    /\ argc \in {2, 3, 4}
    /\ path_exists \in BOOLEAN
    /\ video \in LongVideos
    /\ video.opens => path_exists
    /\ start_time = 0
    /\ interval = 0
    /\ Fresh

InitCall ==
    /\ entry = "call"
    /\ pc = "open"
    /\ argc = 3
    /\ video \in ShortVideos
    /\ DOMAIN video.frames = 0..(video.total_frames - 1)
    /\ path_exists = video.opens
    /\ start_time \in -1..2
    /\ interval \in -1..2
    /\ Fresh

Init == InitMain \/ InitCall

(***************************************************************************)
(* __main__                                                                *)
(***************************************************************************)
Scan == <<video, start_time, interval, cap, total_frames, fps, duration,
          current_time, frames_checked, ret, output, log>>

\* if len(sys.argv) != 3: sys.exit(1)
MainUsage ==
    /\ pc = "main"
    /\ argc # 3
    /\ exit_code' = 1
    /\ pc' = "exit"
    /\ UNCHANGED <<entry, argc, path_exists, Scan>>

\* if not os.path.exists(video_path): sys.exit(1)
MainMissing ==
    /\ pc = "main"
    /\ argc = 3
    /\ ~path_exists
    /\ exit_code' = 1
    /\ pc' = "exit"
    /\ UNCHANGED <<entry, argc, path_exists, Scan>>

\* success = detect_best_face_frame(video_path, output_path)
MainCall ==
    /\ pc = "main"
    /\ argc = 3
    /\ path_exists
    /\ start_time' = 10
    /\ interval' = 2
    /\ pc' = "open"
    /\ UNCHANGED <<entry, argc, path_exists, video, cap, total_frames, fps,
                   duration, current_time, frames_checked, ret, output,
                   exit_code, log>>

\* A slip that exits 0 whatever the function returned.
MainExitZero ==
    /\ pc = "returned"
    /\ entry = "main"
    /\ exit_code' = 0
    /\ pc' = "exit"
    /\ UNCHANGED <<entry, argc, path_exists, Scan>>

\* sys.exit(0 if success else 1)
MainExit ==
    /\ pc = "returned"
    /\ entry = "main"
    /\ exit_code' = IF ret = "true" THEN 0 ELSE 1
    /\ pc' = "exit"
    /\ UNCHANGED <<entry, argc, path_exists, Scan>>

(***************************************************************************)
(* detect_best_face_frame                                                  *)
(***************************************************************************)
Args == <<entry, argc, path_exists, video, start_time, interval, exit_code>>

\* cap = cv2.VideoCapture(video_path); if not cap.isOpened(): return False
OpenFail ==
    /\ pc = "open"
    /\ ~video.opens
    /\ cap' = "failed"
    /\ ret' = "false"
    /\ pc' = "returned"
    /\ UNCHANGED <<Args, total_frames, fps, duration, current_time,
                   frames_checked, output, log>>

\* The video properties, and the cursor at start_time.
OpenOk ==
    /\ pc = "open"
    /\ video.opens
    /\ cap' = "open"
    /\ total_frames' = video.total_frames
    /\ fps' = video.fps
    /\ duration' = IF video.fps > 0
                   THEN [num |-> video.total_frames, den |-> video.fps]
                   ELSE [num |-> 0, den |-> 1]
    /\ current_time' = start_time
    /\ frames_checked' = 0
    /\ pc' = "loop"
    /\ UNCHANGED <<Args, ret, output, log>>

\* current_time < duration
BelowDuration(t) == t * duration.den < duration.num

\* frame_idx = int(current_time * fps)
frame_idx == current_time * fps

\* The body of the loop is about to seek and read the frame.
Sampling == pc = "read"

\* cap.set(cv2.CAP_PROP_POS_FRAMES, frame_idx); ret, frame = cap.read().
\* What a seek to a negative index does is the backend's choice: it clamps
\* the position to frame 0 (video.clamps) or the read fails.
ReadResults ==
    LET at == IF frame_idx >= 0 THEN frame_idx ELSE 0
        found == (frame_idx >= 0 \/ video.clamps) /\ at < total_frames
    IN {[ok |-> found /\ FrameAt(at).ok, src |-> at,
         faces |-> IF found /\ FrameAt(at).ok THEN FrameAt(at).faces ELSE <<>>]}

Record(r, verdicts) ==
    IF Len(log) < MaxSamples
    THEN Append(log, [time |-> current_time, idx |-> frame_idx, ok |-> r.ok,
                      src |-> r.src, faces |-> r.faces, verdicts |-> verdicts])
    ELSE log

Counted(n) == IF n < MaxSamples THEN n + 1 ELSE n

\* A slip that returns without releasing the handle.
LoopExitLeak ==
    /\ pc = "loop"
    /\ ~BelowDuration(current_time)
    /\ ret' = "false"
    /\ pc' = "returned"
    /\ UNCHANGED <<Args, cap, total_frames, fps, duration, current_time,
                   frames_checked, output, log>>

\* while current_time < duration fails: cap.release(); return False
LoopExit ==
    /\ pc = "loop"
    /\ ~BelowDuration(current_time)
    /\ cap' = "released"
    /\ ret' = "false"
    /\ pc' = "returned"
    /\ UNCHANGED <<Args, total_frames, fps, duration, current_time,
                   frames_checked, output, log>>

\* if frame_idx >= total_frames: break; then cap.release(); return False
LoopBreak ==
    /\ pc = "loop"
    /\ BelowDuration(current_time)
    /\ frame_idx >= total_frames
    /\ cap' = "released"
    /\ ret' = "false"
    /\ pc' = "returned"
    /\ UNCHANGED <<Args, total_frames, fps, duration, current_time,
                   frames_checked, output, log>>

\* while current_time < duration holds and frame_idx < total_frames: on to
\* the seek and the read.
LoopEnter ==
    /\ pc = "loop"
    /\ BelowDuration(current_time)
    /\ frame_idx < total_frames
    /\ current_time >= -MaxBack
    /\ pc' = "read"
    /\ UNCHANGED <<Args, cap, total_frames, fps, duration, current_time,
                   frames_checked, ret, output, log>>

\* A slip that counts the frame before it checks the read.
DecodeFailCounted ==
    /\ Sampling
    /\ \E r \in ReadResults :
        /\ ~r.ok
        /\ log' = Record(r, <<>>)
    /\ frames_checked' = Counted(frames_checked)
    /\ current_time' = current_time + interval
    /\ pc' = "loop"
    /\ UNCHANGED <<Args, cap, total_frames, fps, duration, ret, output>>

\* if not ret: current_time += interval; continue
DecodeFail ==
    /\ Sampling
    /\ \E r \in ReadResults :
        /\ ~r.ok
        /\ log' = Record(r, <<>>)
    /\ current_time' = current_time + interval
    /\ pc' = "loop"
    /\ UNCHANGED <<Args, cap, total_frames, fps, duration, frames_checked,
                   ret, output>>

\* A slip that moves the cursor by one second, not by the interval.
NoFacesOneSecond ==
    /\ Sampling
    /\ \E r \in ReadResults :
        /\ r.ok
        /\ Len(r.faces) = 0
        /\ log' = Record(r, <<>>)
    /\ frames_checked' = Counted(frames_checked)
    /\ current_time' = current_time + 1
    /\ pc' = "loop"
    /\ UNCHANGED <<Args, cap, total_frames, fps, duration, ret, output>>

\* if len(faces) == 0: current_time += interval; continue
NoFaces ==
    /\ Sampling
    /\ \E r \in ReadResults :
        /\ r.ok
        /\ Len(r.faces) = 0
        /\ log' = Record(r, <<>>)
    /\ frames_checked' = Counted(frames_checked)
    /\ current_time' = current_time + interval
    /\ pc' = "loop"
    /\ UNCHANGED <<Args, cap, total_frames, fps, duration, ret, output>>

\* The loop over the faces ends with none selected: current_time += interval
RejectAll ==
    /\ Sampling
    /\ \E r \in ReadResults :
        /\ r.ok
        /\ Len(r.faces) > 0
        /\ ~Selects(EvalFaces(r.faces, video.width, video.height))
        /\ log' = Record(r, EvalFaces(r.faces, video.width, video.height))
    /\ frames_checked' = Counted(frames_checked)
    /\ current_time' = current_time + interval
    /\ pc' = "loop"
    /\ UNCHANGED <<Args, cap, total_frames, fps, duration, ret, output>>

\* A face is selected: resize, cv2.imwrite, cap.release(), return True.
\* The code does not read what cv2.imwrite returns: the write is taken to
\* succeed.
Select ==
    /\ Sampling
    /\ \E r \in ReadResults :
        /\ r.ok
        /\ Len(r.faces) > 0
        /\ Selects(EvalFaces(r.faces, video.width, video.height))
        /\ log' = Record(r, EvalFaces(r.faces, video.width, video.height))
        /\ output' = {[width |-> target_width,
                       height |-> TargetHeight(video.height, video.width),
                       src |-> r.src, time |-> current_time]}
    /\ frames_checked' = Counted(frames_checked)
    /\ cap' = "released"
    /\ ret' = "true"
    /\ pc' = "returned"
    /\ UNCHANGED <<Args, total_frames, fps, duration, current_time>>

Next ==
    \/ MainUsage
    \/ MainMissing
    \/ MainCall
    \/ MainExit
    \/ OpenFail
    \/ OpenOk
    \/ LoopExit
    \/ LoopBreak
    \/ LoopEnter
    \/ DecodeFail
    \/ NoFaces
    \/ RejectAll
    \/ Select

Spec == Init /\ [][Next]_vars

\* The program is one thread: whenever it has a next step it takes it.  The
\* scans of this specification never walk backwards, start before 0 only on
\* a video without fps and with a positive interval, and run on the videos
\* of at most one frame and on the 30 s videos that differ in frame 300.
FairInit ==
    /\ Init
    /\ interval >= 0
    /\ start_time < 0 => (video.fps = 0 /\ interval > 0)
    /\ video.total_frames \in {0, 1, 900}
    /\ video.width \in {640, 1920}
    /\ \A i \in DOMAIN video.frames : i > 300 => video.frames[i] = Blank

FairSpec == FairInit /\ [][Next]_vars /\ WF_vars(Next)

(***************************************************************************)
(* The properties.                                                         *)
(***************************************************************************)
Returned == ret # "none"

\* The history holds every read of the scan.
LogComplete == Len(log) < MaxSamples

\* A face meeting the three conditions: area_ratio >= 0.09, at least two
\* eyes, total_score >= 75.
Qualifies(kind) ==
    LET f == FaceRect(kind, video.width, video.height)
        area == frame_area(video.width, video.height)
    IN /\ 100 * face_area(f) >= 9 * area
       /\ f.eyes >= 2
       /\ total_score(f, video.width, video.height) >= 75 * area

HasQualifying(faces) == \E j \in 1..Len(faces) : Qualifies(faces[j])

FirstQualifying(faces) ==
    CHOOSE j \in 1..Len(faces) :
        Qualifies(faces[j]) /\ \A i \in 1..(j - 1) : ~Qualifies(faces[i])

\* A read of the scan that decoded a frame holding a qualifying face.
SampledQualifying ==
    \E k \in 1..Len(log) : log[k].ok /\ HasQualifying(log[k].faces)

Thumbnail320 == \E o \in output : o.width = 320

\* C1 as stated: once the function has returned on a video that opened, a
\* decodable frame at or after start_time with a qualifying face means the
\* function returned True and wrote a thumbnail 320 wide.
C1_AnyFrameSelected ==
    (Returned /\ cap # "failed") =>
        ((\E i \in DOMAIN video.frames :
              /\ i < video.total_frames
              /\ video.fps > 0
              /\ i >= start_time * video.fps
              /\ video.frames[i].ok
              /\ HasQualifying(video.frames[i].faces))
         => (ret = "true" /\ Thumbnail320))

\* C1 amended: once the function has returned, if a frame that the scan
\* sampled and decoded holds a qualifying face, the function returned True
\* and wrote a thumbnail 320 wide.
C1_SampledFrameSelected ==
    (Returned /\ LogComplete /\ SampledQualifying) =>
        (ret = "true" /\ Thumbnail320)

C1_Witness ==
    /\ ret = "true"
    /\ Thumbnail320
    /\ Len(log) >= 2
    /\ log[Len(log)].verdicts = <<"eyes", "selected">>

\* C2: nothing is written unless the function returns True; a video that
\* does not open gives False; and when no sampled frame holds a qualifying
\* face the function, once returned, has returned False and written nothing.
C2_NoFaceNoFile ==
    /\ ret # "true" => output = {}
    /\ cap = "failed" => ret = "false"
    /\ (Returned /\ LogComplete /\ ~SampledQualifying) => (ret = "false" /\ output = {})

C2_Witness ==
    /\ ret = "false"
    /\ cap = "released"
    /\ output = {}
    /\ \E k \in 1..Len(log) : log[k].verdicts = <<"small", "eyes">>

\* C3 as stated: whenever the function has returned, release() was called on
\* the handle.
C3_ReleasedOnEveryPath == Returned => cap = "released"

\* C3 amended: release() is called when the function returns after the video
\* opened (success, end of the scan range); when the video does not open the
\* function returns without calling release(), on a handle that never
\* opened.  No handle is open once the function has returned.
C3_ReleasedWhenOpened ==
    /\ Returned => cap \in {"released", "failed"}
    /\ (Returned /\ video.opens) => cap = "released"
    /\ (Returned /\ ~video.opens) => cap = "failed"

C3_Witness ==
    /\ ret = "false"
    /\ cap = "released"
    /\ Len(log) >= 1

\* C4: the program exits 0 exactly when a thumbnail was selected and written;
\* it exits 1 on a wrong argument count, on a missing video path and when no
\* face is found; on the first two the video is never opened.
C4_ExitCodes ==
    /\ pc = "exit" => exit_code \in {0, 1}
    /\ pc = "exit" => (exit_code = 0 <=> (ret = "true" /\ output # {}))
    /\ (pc = "exit" /\ (argc # 3 \/ ~path_exists)) =>
            (exit_code = 1 /\ cap = "none" /\ log = <<>> /\ ret = "none")
    /\ (pc = "exit" /\ ret = "false") => exit_code = 1
    /\ pc # "exit" => exit_code = -1

C4_Witness ==
    /\ pc = "exit"
    /\ exit_code = 0
    /\ output # {}

\* C5 as stated: every call of the function eventually returns (or the
\* program exits before calling it).
C5_Terminates == <>(pc \in {"returned", "exit"})

Times == [k \in 1..Len(log) |-> log[k].time]

\* The sampled timestamps are start_time + k * interval, each below the
\* duration, in strictly increasing order.
SampledOnGrid ==
    /\ \A k \in 1..Len(log) :
          /\ log[k].time = start_time + (k - 1) * interval
          /\ BelowDuration(log[k].time)
    /\ \A k \in 1..(Len(log) - 1) : log[k].time < log[k + 1].time

Scenario ==
    /\ total_frames = 900
    /\ fps = 30
    /\ start_time = 10
    /\ interval = 2

\* C6 as stated: when the scan returns False, the sampled timestamps are
\* exactly the grid points below the duration (10, 12, ..., 28 in the
\* scenario), and with fps = 0 nothing is sampled.
C6_GridSampled ==
    (ret = "false" /\ cap = "released" /\ LogComplete) =>
        /\ SampledOnGrid
        /\ ~BelowDuration(start_time + Len(log) * interval)
        /\ Scenario => Times = <<10, 12, 14, 16, 18, 20, 22, 24, 26, 28>>
        /\ fps = 0 => log = <<>>

\* C6 amended: as C6, but with fps = 0 nothing is sampled only when
\* start_time >= 0 or the video has no frame; with fps = 0, a negative
\* start_time and total_frames > 0 frame 0 is read at every negative grid
\* point, and with total_frames = 0 the scan stops at the index check.
C6_GridSampledFromZero ==
    (ret = "false" /\ cap = "released" /\ LogComplete) =>
        /\ SampledOnGrid
        /\ \/ ~BelowDuration(start_time + Len(log) * interval)
           \/ fps = 0 /\ total_frames = 0 /\ start_time < 0 /\ log = <<>>
        /\ Scenario => Times = <<10, 12, 14, 16, 18, 20, 22, 24, 26, 28>>
        /\ (fps = 0 /\ (start_time >= 0 \/ total_frames = 0)) => log = <<>>
        /\ (fps = 0 /\ start_time < 0 /\ total_frames > 0) =>
               /\ ~BelowDuration(start_time + Len(log) * interval)
               /\ \A k \in 1..Len(log) : log[k].idx = 0

C6_Witness ==
    /\ ret = "false"
    /\ Scenario
    /\ Len(log) = 10
    /\ frames_checked = 9

\* C7: when a frame is selected it is the first sampled frame holding a
\* qualifying face, the face selected is the first qualifying face in
\* detector order, no later face of the frame was looked at, the cursor has
\* not moved on, and the thumbnail is of that frame.
C7_FirstMatch ==
    (ret = "true" /\ LogComplete) =>
        /\ Len(log) >= 1
        /\ LET e == log[Len(log)]
           IN /\ e.ok
              /\ HasQualifying(e.faces)
              /\ Len(e.verdicts) = FirstQualifying(e.faces)
              /\ e.verdicts[Len(e.verdicts)] = "selected"
              /\ \A j \in 1..(Len(e.verdicts) - 1) : e.verdicts[j] # "selected"
              /\ e.time = current_time
              /\ \A o \in output : o.src = e.src /\ o.time = e.time
        /\ \A k \in 1..(Len(log) - 1) : ~(log[k].ok /\ HasQualifying(log[k].faces))
        /\ Cardinality(output) = 1

\* The face selected is followed, in the same frame, by a face that scores
\* higher, and an earlier sample was rejected.
C7_Witness ==
    /\ ret = "true"
    /\ Len(log) >= 2
    /\ LET e == log[Len(log)]
       IN /\ e.faces = <<"corner", "centre">>
          /\ e.verdicts = <<"selected">>
          /\ total_score(FaceRect("centre", video.width, video.height),
                         video.width, video.height)
               > total_score(FaceRect("corner", video.width, video.height),
                             video.width, video.height)

\* A step that records a failed read.
FailedReadStep ==
    /\ Len(log') = Len(log) + 1
    /\ ~log'[Len(log')].ok

\* The count of frames_checked is the number of reads that decoded, and a
\* qualifying face sampled after a failed read is selected.
C8_State ==
    /\ LogComplete => frames_checked = Cardinality({k \in 1..Len(log) : log[k].ok})
    /\ (Returned /\ LogComplete
          /\ \E k \in 1..Len(log) : \E n \in (k + 1)..Len(log) :
                ~log[k].ok /\ log[n].ok /\ HasQualifying(log[n].faces))
       => ret = "true"

\* What a step that records a failed read does.
C8_Step ==
    FailedReadStep =>
        /\ current_time' = current_time + interval
        /\ frames_checked' = frames_checked
        /\ log'[Len(log')].verdicts = <<>>
        /\ log'[Len(log')].time = current_time
        /\ pc' = "loop"
        /\ ret' = "none"
        /\ cap' = "open"

\* C8: a failed read moves the cursor by exactly one interval, passes
\* nothing to the detectors, is not counted in frames_checked and does not
\* end the scan; a qualifying face sampled after a failed read is selected.
C8_DecodeFailureSkipped == [](C8_State) /\ [][C8_Step]_vars

C8_Witness ==
    /\ ret = "true"
    /\ Len(log) >= 2
    /\ ~log[1].ok
    /\ frames_checked = Len(log) - 1

\* C9 as stated: the thumbnail is 320 wide and its height is
\* originalHeight * 320 / originalWidth rounded to the nearest integer.
C9_HeightRounded ==
    \A o \in output :
        /\ o.width = 320
        /\ 2 * Abs(o.height * video.width - 320 * video.height) <= video.width

\* C9 amended: the thumbnail is 320 wide and its height is
\* int(originalHeight * (320 / originalWidth)), the double product cut
\* towards zero: never above originalHeight * 320 / originalWidth, less than
\* one below it, and one below it only when that quotient is an integer;
\* 1920x1080 gives 320x180.
C9_HeightTruncated ==
    \A o \in output :
        /\ o.width = 320
        /\ o.height * video.width <= 320 * video.height
        /\ 320 * video.height <= (o.height + 1) * video.width
        /\ (video.width = 1920 /\ video.height = 1080) => o.height = 180

C9_Witness ==
    \E o \in output :
        /\ video.width = 854
        /\ video.height = 480
        /\ o.height = 179

\* C10: no face looked at is rejected for its score; a face that passes the
\* size gate and the eye gate has size_score >= 27 and total_score >= 77,
\* and a face is selected exactly when it passes both gates.
C10_ScoreGateNeverRejects ==
    \A k \in 1..Len(log) : \A j \in 1..Len(log[k].verdicts) :
        LET f == FaceRect(log[k].faces[j], video.width, video.height)
            area == frame_area(video.width, video.height)
            gates == 100 * face_area(f) >= 9 * area /\ f.eyes >= 2
        IN /\ log[k].verdicts[j] # "lowscore"
           /\ gates => size_score(f, video.width, video.height) >= 27 * area
           /\ gates => total_score(f, video.width, video.height) >= 77 * area
           /\ log[k].verdicts[j] = "selected" <=> gates

\* A face of exactly 9 % of the frame, in a corner, is selected.
C10_Witness ==
    \E k \in 1..Len(log) :
        /\ log[k].faces = <<"corner", "centre">>
        /\ log[k].verdicts = <<"selected">>
        /\ LET f == FaceRect("corner", video.width, video.height)
           IN 100 * face_area(f) = 9 * frame_area(video.width, video.height)

====
